---- MODULE Spec2Model ----
(***************************************************************************)
(* Block-placement puzzle (main_game.py) and its move-suggestion engine    *)
(* (ai_solver.py).                                                         *)
(*                                                                         *)
(* The state is that of main(): the grid, the three piece slots, the       *)
(* sequence the solver suggested last, and the position in the game loop.  *)
(* Printing, time.sleep and the score counter of main() do not influence   *)
(* the grid, the slots or the solver and are left out.                     *)
(*                                                                         *)
(* A shape is a Python list of pairwise distinct (row, col) offsets; every *)
(* consumer (max, is_valid_placement, place_piece) ranges over all of its  *)
(* elements, so a shape is modelled by the set of its offsets.             *)
(*                                                                         *)
(* Python passes grids by reference and place_piece / find_and_clear_lines *)
(* mutate their argument.  The solver is therefore modelled over a heap (a *)
(* sequence of grids); a grid argument is an index into the heap, and      *)
(* copy.deepcopy allocates a new heap cell.                                *)
(***************************************************************************)
EXTENDS Integers, Sequences, FiniteSets

\* ------------------------------------------------------------------ bounds
\* Side of the (square) board.  main_game.py fixes GRID_WIDTH = GRID_HEIGHT = 8.
GridSize == 3
\* Number of pieces the player may place in one explored game.
MaxMoves == 2
\* Largest digit the player types.
MaxDigit == 4
\* Most pieces left unplaced (slots 0 .. left - 1) when the solver is called
\* directly on an arbitrary board.
MaxLeftApi == 2
\* Indices (1-based) into BASE_SHAPES of the shapes get_new_pieces may draw.
PlayedShapes == {1, 7}

\* --------------------------------------------------------------- constants
GRID_WIDTH == GridSize
GRID_HEIGHT == GridSize
EMPTY_CELL == "."
BLOCK_CELL == "#"
NUM_PIECES == 3

WEIGHT_LINES_CLEARED == 2000
WEIGHT_FILLED_CELLS == -10
WEIGHT_CLUSTERING == 20
BONUS_ALL_CLEAR == 10000

\* -float('inf'): below every finite score, absorbing under addition (ScoreAdd).
NegInf == -1000000000

BASE_SHAPES ==
  << {<<0,0>>, <<0,1>>},
     {<<0,0>>, <<0,1>>, <<0,2>>},
     {<<0,0>>, <<0,1>>, <<0,2>>, <<0,3>>},
     {<<0,0>>, <<0,1>>, <<0,2>>, <<0,3>>, <<0,4>>},
     {<<0,0>>, <<0,1>>, <<1,0>>, <<1,1>>},
     {<<0,0>>, <<0,1>>, <<0,2>>, <<1,0>>, <<1,1>>, <<1,2>>, <<2,0>>, <<2,1>>, <<2,2>>},
     {<<0,0>>, <<1,0>>, <<1,1>>},
     {<<0,0>>, <<1,0>>, <<2,0>>, <<2,1>>},
     {<<0,0>>, <<1,0>>, <<2,0>>, <<2,1>>, <<2,2>>},
     {<<0,1>>, <<1,0>>, <<1,1>>, <<1,2>>},
     {<<0,0>>, <<0,1>>, <<0,2>>, <<1,0>>, <<1,1>>, <<1,2>>},
     {<<0,1>>, <<0,2>>, <<1,0>>, <<1,1>>} >>

\* ----------------------------------------------------------------- helpers
SetMax(S) == CHOOSE x \in S : \A y \in S : y <= x
SetMin(S) == CHOOSE x \in S : \A y \in S : x <= y

\* ------------------------------------------------------- main_game: pieces
rotate_piece(piece_shape) == { <<p[2], -p[1]>> : p \in piece_shape }

normalize_piece(piece_shape) ==
  IF piece_shape = {} THEN {}
  ELSE LET min_r == SetMin({ p[1] : p \in piece_shape })
           min_c == SetMin({ p[2] : p \in piece_shape })
       IN  { <<p[1] - min_r, p[2] - min_c>> : p \in piece_shape }

RECURSIVE Rotated(_, _)
Rotated(shape, num_rotations) ==
  IF num_rotations = 0 THEN shape
  ELSE Rotated(rotate_piece(shape), num_rotations - 1)

\* One piece of get_new_pieces: base shape b rotated n times, normalized.
NewPiece(b, n) ==
  [shape |-> normalize_piece(Rotated(BASE_SHAPES[b], n)), placed |-> FALSE]

\* Every triple get_new_pieces can return (slots are indexed 0..2 as in Python).
get_new_pieces ==
  { [i \in 0..(NUM_PIECES - 1) |-> NewPiece(bs[i], ns[i])] :
      bs \in [0..(NUM_PIECES - 1) -> PlayedShapes],
      ns \in [0..(NUM_PIECES - 1) -> 0..3] }

\* -------------------------------------------------------- main_game: board
create_grid == [r \in 0..(GRID_HEIGHT - 1) |-> [c \in 0..(GRID_WIDTH - 1) |-> EMPTY_CELL]]

is_valid_placement(grid, piece_shape, r_start, c_start) ==
  \A p \in piece_shape :
    LET r == r_start + p[1]
        c == c_start + p[2]
    IN  /\ 0 <= r /\ r < GRID_HEIGHT
        /\ 0 <= c /\ c < GRID_WIDTH
        /\ grid[r][c] = EMPTY_CELL

\* place_piece mutates the grid object `ref` of the heap.
place_piece(heap, ref, piece_shape, r_start, c_start) ==
  [heap EXCEPT ![ref] =
     [r \in 0..(GRID_HEIGHT - 1) |-> [c \in 0..(GRID_WIDTH - 1) |->
        IF <<r - r_start, c - c_start>> \in piece_shape THEN BLOCK_CELL ELSE @[r][c]]]]

\* find_and_clear_lines mutates the grid object `ref`; count is its return value.
find_and_clear_lines(heap, ref) ==
  LET grid == heap[ref]
      rows_to_clear == { r \in 0..(GRID_HEIGHT - 1) :
                           \A c \in 0..(GRID_WIDTH - 1) : grid[r][c] = BLOCK_CELL }
      cols_to_clear == { c \in 0..(GRID_WIDTH - 1) :
                           \A r \in 0..(GRID_HEIGHT - 1) : grid[r][c] = BLOCK_CELL }
  IN  [heap |-> [heap EXCEPT ![ref] =
                  [r \in 0..(GRID_HEIGHT - 1) |-> [c \in 0..(GRID_WIDTH - 1) |->
                     IF r \in rows_to_clear \/ c \in cols_to_clear
                     THEN EMPTY_CELL ELSE grid[r][c]]]],
       count |-> Cardinality(rows_to_clear) + Cardinality(cols_to_clear)]

can_any_piece_be_placed(grid, pieces) ==
  \E i \in 0..(NUM_PIECES - 1) :
    /\ ~pieces[i].placed
    /\ \E r \in 0..(GRID_HEIGHT - 1), c \in 0..(GRID_WIDTH - 1) :
         is_valid_placement(grid, pieces[i].shape, r, c)

\* ------------------------------------------------------ ai_solver: evaluator
RECURSIVE Sum(_)
\* The total an accumulating for loop reaches, given what each iteration adds.
Sum(added) == IF added = <<>> THEN 0 ELSE Head(added) + Sum(Tail(added))

\* The loops run col over range(GRID_HEIGHT) and row over range(GRID_WIDTH)
\* and read grid[row][col], as the source does.
count_filled_cells(grid) ==
  Sum([col \in 1..GRID_HEIGHT |->
    Sum([row \in 1..GRID_WIDTH |->
      IF grid[row - 1][col - 1] = BLOCK_CELL THEN 1 ELSE 0])])

check_surrounding_cells(grid, row, col) ==
  LET positions == << <<-1, 0>>, <<1, 0>>, <<0, -1>>, <<0, 1>> >>
  IN  Sum([k \in 1..4 |->
        LET check_row == row + positions[k][1]
            check_col == col + positions[k][2]
            is_in_bounds == /\ 0 <= check_row /\ check_row < GRID_HEIGHT
                            /\ 0 <= check_col /\ check_col < GRID_WIDTH
        IN  IF is_in_bounds /\ grid[check_row][check_col] = BLOCK_CELL THEN 1 ELSE 0])

check_block_clusters(grid) ==
  Sum([row \in 1..GRID_HEIGHT |->
    Sum([col \in 1..GRID_WIDTH |->
      IF grid[row - 1][col - 1] = BLOCK_CELL
      THEN check_surrounding_cells(grid, row - 1, col - 1) ELSE 0])])

\* evaluate_board without the clustering term.
evaluate_board_unclustered(grid, lines_cleared) ==
  LET filled_cells == count_filled_cells(grid)
  IN  IF filled_cells = 0 THEN BONUS_ALL_CLEAR
      ELSE WEIGHT_LINES_CLEARED * (lines_cleared * lines_cleared)
           + WEIGHT_FILLED_CELLS * filled_cells

evaluate_board(grid, lines_cleared) ==
  LET filled_cells == count_filled_cells(grid)
  IN  IF filled_cells = 0 THEN BONUS_ALL_CLEAR
      ELSE WEIGHT_LINES_CLEARED * (lines_cleared * lines_cleared)
           + WEIGHT_FILLED_CELLS * filled_cells
           + WEIGHT_CLUSTERING * check_block_clusters(grid)

\* ----------------------------------------------------- ai_solver: enumerator
\* range(n) has no element when n <= 0.
RangeLen(n) == IF n > 0 THEN n ELSE 0

\* The enumerator without the is_valid_placement test: every anchor at which the
\* bounding box fits.
find_all_unchecked_placements(grid, piece_shape) ==
  IF piece_shape = {} THEN <<>>
  ELSE LET piece_height == SetMax({ p[1] : p \in piece_shape }) + 1
           piece_width == SetMax({ p[2] : p \in piece_shape }) + 1
           rows == RangeLen(GRID_HEIGHT - piece_height + 1)
           cols == RangeLen(GRID_WIDTH - piece_width + 1)
       IN  [n \in 1..(rows * cols) |-> <<(n - 1) \div cols, (n - 1) % cols>>]

\* The enumerator with range(GRID_HEIGHT - piece_height) and
\* range(GRID_WIDTH - piece_width): the last row and column of anchors are lost.
find_all_but_last_placements(grid, piece_shape) ==
  IF piece_shape = {} THEN <<>>
  ELSE LET piece_height == SetMax({ p[1] : p \in piece_shape }) + 1
           piece_width == SetMax({ p[2] : p \in piece_shape }) + 1
           rows == RangeLen(GRID_HEIGHT - piece_height)
           cols == RangeLen(GRID_WIDTH - piece_width)
           anchors == [n \in 1..(rows * cols) |-> <<(n - 1) \div cols, (n - 1) % cols>>]
           Valid(a) == is_valid_placement(grid, piece_shape, a[1], a[2])
       IN  SelectSeq(anchors, Valid)

find_all_possible_placements(grid, piece_shape) ==
  IF piece_shape = {} THEN <<>>
  ELSE LET piece_height == SetMax({ p[1] : p \in piece_shape }) + 1
           piece_width == SetMax({ p[2] : p \in piece_shape }) + 1
           rows == RangeLen(GRID_HEIGHT - piece_height + 1)
           cols == RangeLen(GRID_WIDTH - piece_width + 1)
           \* the nested loops visit (row, col) in this order
           anchors == [n \in 1..(rows * cols) |-> <<(n - 1) \div cols, (n - 1) % cols>>]
           Valid(a) == is_valid_placement(grid, piece_shape, a[1], a[2])
       IN  SelectSeq(anchors, Valid)

\* --------------------------------------------------------- ai_solver: search
\* A dead end that counts as a continuation worth 0 instead of -inf.
ScoreAdd_dead_end_zero(a, b) == IF b = NegInf THEN a ELSE a + b

\* total_score that forgets move_score.
ScoreAdd_future_only(a, b) == b

\* Python's float arithmetic on -inf: -inf + x = -inf.
ScoreAdd(a, b) == IF a = NegInf \/ b = NegInf THEN NegInf ELSE a + b

\* `>=` in place of `>`.
StepImproves_or_ties(total_score, best_score_step) == total_score >= best_score_step

\* `if total_score > best_score_step`
StepImproves(total_score, best_score_step) == total_score > best_score_step

\* `>=` in place of `>`.
OverallImproves_or_ties(current_score, best_overall_score) == current_score >= best_overall_score

\* `if current_score > best_overall_score`
OverallImproves(current_score, best_overall_score) == current_score > best_overall_score

\* temp_grid = current_grid: no copy, the same object under another name.
deepcopy_alias(heap, ref) == [heap |-> heap, ref |-> ref]

\* copy.deepcopy(current_grid): a new grid object holding the same cells.
deepcopy(heap, ref) == [heap |-> Append(heap, heap[ref]), ref |-> Len(heap) + 1]

RECURSIVE find_best_outcome_recursive(_, _, _, _, _)
RECURSIVE PlacementLoop(_, _, _, _, _, _, _, _, _)

\* The `for r, c in possible_placements` loop, from its k-th element on.
\* acc carries best_score_step and best_sub_sequence.  entry is the value the
\* grid had when the enclosing call began; iso records that every copy taken
\* so far held exactly that value, dead that some call below depth 0 found no
\* placement (both are observations, not program state).
PlacementLoop(heap, current_grid, all_pieces, piece_order, depth, possible_placements, k, entry, acc) ==
  IF k > Len(possible_placements) THEN [acc EXCEPT !.heap = heap]
  ELSE
    LET piece_index == piece_order[depth + 1]
        piece_shape == all_pieces[piece_index].shape
        r == possible_placements[k][1]
        c == possible_placements[k][2]
        temp == deepcopy(heap, current_grid)
        temp_grid == temp.ref
        placed == place_piece(temp.heap, temp_grid, piece_shape, r, c)
        cleared == find_and_clear_lines(placed, temp_grid)
        lines_cleared == cleared.count
        move_score == (lines_cleared * lines_cleared) * WEIGHT_LINES_CLEARED
        future == find_best_outcome_recursive(cleared.heap, temp_grid, all_pieces,
                                              piece_order, depth + 1)
        total_score == ScoreAdd(move_score, future.score)
        \* temp_grid is rebound by the next iteration: its object is dropped
        heap_after == SubSeq(future.heap, 1, Len(heap))
        iso_after == acc.iso /\ future.iso /\ temp.heap[temp_grid] = entry
        dead_after == acc.dead \/ future.dead
    IN  IF StepImproves(total_score, acc.score)
        THEN PlacementLoop(heap_after, current_grid, all_pieces, piece_order, depth,
                           possible_placements, k + 1, entry,
                           [score |-> total_score,
                            seq   |-> << <<piece_index, r, c>> >> \o future.seq,
                            heap  |-> heap_after, iso |-> iso_after, dead |-> dead_after])
        ELSE PlacementLoop(heap_after, current_grid, all_pieces, piece_order, depth,
                           possible_placements, k + 1, entry,
                           [score |-> acc.score, seq |-> acc.seq,
                            heap  |-> heap_after, iso |-> iso_after, dead |-> dead_after])

find_best_outcome_recursive(heap, current_grid, all_pieces, piece_order, depth) ==
  IF depth = Len(piece_order)
  THEN [score |-> evaluate_board(heap[current_grid], 0), seq |-> <<>>,
        heap |-> heap, iso |-> TRUE, dead |-> FALSE]
  ELSE
    LET piece_index == piece_order[depth + 1]
        piece_shape == all_pieces[piece_index].shape
        possible_placements == find_all_possible_placements(heap[current_grid], piece_shape)
    IN  PlacementLoop(heap, current_grid, all_pieces, piece_order, depth,
                      possible_placements, 1, heap[current_grid],
                      [score |-> NegInf, seq |-> <<>>, heap |-> heap, iso |-> TRUE,
                       dead |-> depth > 0 /\ Len(possible_placements) = 0])

RECURSIVE permutations_descending(_)
\* The permutations, last position of the input first.
permutations_descending(s) ==
  IF Len(s) = 0 THEN << <<>> >>
  ELSE LET Without(i) == SubSeq(s, 1, i - 1) \o SubSeq(s, i + 1, Len(s))
           RECURSIVE From(_)
           From(i) ==
             IF i < 1 THEN <<>>
             ELSE LET rest == permutations_descending(Without(i))
                  IN  [j \in 1..Len(rest) |-> <<s[i]>> \o rest[j]] \o From(i - 1)
       IN  From(Len(s))

RECURSIVE permutations_nonempty(_)
\* The permutations, except that an empty input yields none.
permutations_nonempty(s) ==
  IF Len(s) = 0 THEN <<>>
  ELSE IF Len(s) = 1 THEN << s >>
  ELSE LET Without(i) == SubSeq(s, 1, i - 1) \o SubSeq(s, i + 1, Len(s))
           RECURSIVE From(_)
           From(i) ==
             IF i > Len(s) THEN <<>>
             ELSE LET rest == permutations_nonempty(Without(i))
                  IN  [j \in 1..Len(rest) |-> <<s[i]>> \o rest[j]] \o From(i + 1)
       IN  From(1)

RECURSIVE permutations(_)
\* itertools.permutations(s), in the order it yields them.
permutations(s) ==
  IF Len(s) = 0 THEN << <<>> >>
  ELSE LET Without(i) == SubSeq(s, 1, i - 1) \o SubSeq(s, i + 1, Len(s))
           RECURSIVE From(_)
           From(i) ==
             IF i > Len(s) THEN <<>>
             ELSE LET rest == permutations(Without(i))
                  IN  [j \in 1..Len(rest) |-> <<s[i]>> \o rest[j]] \o From(i + 1)
       IN  From(1)

\* The None the solver returns when no permutation scored above -inf, and a
\* returned list of moves.
None == [none |-> TRUE, moves |-> <<>>]
Some(moves) == [none |-> FALSE, moves |-> moves]

RECURSIVE PermutationLoop(_, _, _, _, _)
\* The `for pieces_order in itertools.permutations(...)` loop from its k-th
\* permutation on; acc carries best_overall_sequence and best_overall_score.
PermutationLoop(heap, pieces, orders, k, acc) ==
  IF k > Len(orders) THEN [acc EXCEPT !.heap = heap]
  ELSE
    LET current == find_best_outcome_recursive(heap, 1, pieces, orders[k], 0)
        iso_after == acc.iso /\ current.iso
        dead_after == acc.dead \/ current.dead
    IN  IF OverallImproves(current.score, acc.score)
        THEN PermutationLoop(current.heap, pieces, orders, k + 1,
                             [score |-> current.score, seq |-> Some(current.seq),
                              heap |-> current.heap, iso |-> iso_after, dead |-> dead_after])
        ELSE PermutationLoop(current.heap, pieces, orders, k + 1,
                             [score |-> acc.score, seq |-> acc.seq,
                              heap |-> current.heap, iso |-> iso_after, dead |-> dead_after])

\* The grid argument is heap cell 1.  seq is the value returned; heap[1] is the
\* caller's grid object as the call leaves it.
find_best_move_sequence(grid, pieces) ==
  LET all == [i \in 1..NUM_PIECES |-> i - 1]
      Available(i) == ~pieces[i].placed
      available_piece_indices == SelectSeq(all, Available)
  IN  PermutationLoop(<<grid>>, pieces, permutations(available_piece_indices), 1,
                      [score |-> NegInf, seq |-> None, heap |-> <<grid>>,
                       iso |-> TRUE, dead |-> FALSE])

\* --------------------------------------------------------------- main loop
VARIABLES grid, available_pieces, suggested_sequence, pc, moves, isolated, dead_end

vars == <<grid, available_pieces, suggested_sequence, pc, moves, isolated, dead_end>>

Init ==
  /\ grid = create_grid
  /\ available_pieces \in get_new_pieces
  /\ suggested_sequence = None
  /\ pc = "suggest"
  /\ moves = 0
  /\ isolated = TRUE
  /\ dead_end = FALSE

\* Top of the while loop: the solver is asked for a suggestion, then the game
\* ends if no available piece fits anywhere.
Suggest ==
  /\ pc = "suggest"
  /\ \E found \in {find_best_move_sequence(grid, available_pieces)} :
         /\ suggested_sequence' = found.seq
         /\ grid' = found.heap[1]
         /\ isolated' = found.iso
         /\ dead_end' = found.dead
  /\ pc' = IF can_any_piece_be_placed(grid', available_pieces) THEN "input" ELSE "over"
  /\ UNCHANGED <<available_pieces, moves>>

\* The player enters three digits: piece number, row, column (each character
\* of the input goes through int()).
Digits == 0..MaxDigit

Accepted(piece, row, col) ==
  /\ 0 <= piece - 1 /\ piece - 1 < 3
  /\ ~available_pieces[piece - 1].placed
  /\ is_valid_placement(grid, available_pieces[piece - 1].shape, row, col)

\* A valid placement: the piece is placed, lines are cleared, and a new round
\* of pieces is drawn once all three are placed.
Place ==
  /\ pc = "input"
  /\ moves < MaxMoves
  /\ \E piece \in Digits, row \in Digits, col \in Digits :
       /\ Accepted(piece, row, col)
       /\ LET piece_idx == piece - 1
              placed == place_piece(<<grid>>, 1, available_pieces[piece_idx].shape, row, col)
              cleared == find_and_clear_lines(placed, 1)
              marked == [available_pieces EXCEPT ![piece_idx].placed = TRUE]
          IN  /\ grid' = cleared.heap[1]
              /\ IF \A i \in 0..(NUM_PIECES - 1) : marked[i].placed
                 THEN available_pieces' \in get_new_pieces
                 ELSE available_pieces' = marked
  /\ moves' = moves + 1
  /\ pc' = "suggest"
  /\ UNCHANGED <<suggested_sequence, isolated, dead_end>>

\* Input that names no piece, a placed piece, or a placement that is out of
\* bounds or overlaps: a message is printed and the loop starts over.
Reject ==
  /\ pc = "input"
  /\ \E piece \in Digits, row \in Digits, col \in Digits : ~Accepted(piece, row, col)
  /\ pc' = "suggest"
  /\ UNCHANGED <<grid, available_pieces, suggested_sequence, moves, isolated, dead_end>>

\* 'q', 'quit' or 'exit'.
Quit ==
  /\ pc = "input"
  /\ pc' = "over"
  /\ UNCHANGED <<grid, available_pieces, suggested_sequence, moves, isolated, dead_end>>

Next == Suggest \/ Place \/ Reject \/ Quit

Spec == Init /\ [][Next]_vars

\* ------------------------------------------------- the solver called directly
\* find_best_move_sequence is also a function of the module: a caller may hand
\* it any board and a round in which pieces are already placed, all three
\* included.  The boards here are those main() can hold between two moves:
\* find_and_clear_lines has run, so no row and no column is complete.
ClearedGrids ==
  { g \in [0..(GRID_HEIGHT - 1) -> [0..(GRID_WIDTH - 1) -> {EMPTY_CELL, BLOCK_CELL}]] :
      find_and_clear_lines(<<g>>, 1).count = 0 }

InitApi ==
  /\ grid \in ClearedGrids
  /\ \E fresh \in get_new_pieces, left \in 0..MaxLeftApi :
       available_pieces = [i \in 0..(NUM_PIECES - 1) |-> [fresh[i] EXCEPT !.placed = (i >= left)]]
  /\ suggested_sequence = None
  /\ pc = "suggest"
  /\ moves = 0
  /\ isolated = TRUE
  /\ dead_end = FALSE

NextApi == Suggest

SpecApi == InitApi /\ [][NextApi]_vars

\* ------------------------------------------------------- claims: vocabulary
Cells == (0..(GridSize - 1)) \X (0..(GridSize - 1))

Slots == 0..(NUM_PIECES - 1)

Unplaced == { i \in Slots : ~available_pieces[i].placed }

\* suggested_sequence is the solver's answer for the current grid and slots.
Answered == pc # "suggest"

\* Every cell of the shape, translated by the anchor, is on the board and empty.
Legal(g, shape, a) ==
  \A p \in shape :
    /\ a[1] + p[1] \in 0..(GridSize - 1)
    /\ a[2] + p[2] \in 0..(GridSize - 1)
    /\ g[a[1] + p[1]][a[2] + p[2]] = EMPTY_CELL

LegalAnchors(g, shape) == { a \in Cells : Legal(g, shape, a) }

\* One move replayed: place_piece, then find_and_clear_lines.
Applied(g, shape, a) ==
  LET done == find_and_clear_lines(place_piece(<<g>>, 1, shape, a[1], a[2]), 1)
  IN  [grid |-> done.heap[1], lines |-> done.count]

Filled(g) == { p \in Cells : g[p[1]][p[2]] = BLOCK_CELL }

Adjacent(p, q) ==
  \/ p[1] = q[1] /\ (p[2] = q[2] + 1 \/ q[2] = p[2] + 1)
  \/ p[2] = q[2] /\ (p[1] = q[1] + 1 \/ q[1] = p[1] + 1)

\* 10000 on a board with no filled cell, else -10 x filled + 20 x cluster,
\* cluster counting every adjacent filled pair from both sides.
BoardScore(g) ==
  IF Filled(g) = {} THEN 10000
  ELSE -10 * Cardinality(Filled(g))
       + 20 * Cardinality({ pq \in Filled(g) \X Filled(g) : Adjacent(pq[1], pq[2]) })

RECURSIVE SequenceScore(_, _)
\* Sum of 2000 x lines^2 over the moves, plus the score of the final board.
SequenceScore(g, s) ==
  IF s = <<>> THEN BoardScore(g)
  ELSE LET m == Head(s)
           next == Applied(g, available_pieces[m[1]].shape, <<m[2], m[3]>>)
       IN  2000 * next.lines * next.lines + SequenceScore(next.grid, Tail(s))

RECURSIVE SequencesInOrder(_, _)
\* Every sequence of legal moves that places the slots of `order`, in order.
SequencesInOrder(g, order) ==
  IF order = <<>> THEN { <<>> }
  ELSE LET i == Head(order)
           shape == available_pieces[i].shape
       IN  UNION { { << <<i, a[1], a[2]>> >> \o t :
                       t \in SequencesInOrder(Applied(g, shape, a).grid, Tail(order)) } :
                   a \in LegalAnchors(g, shape) }

Orders(S) ==
  { o \in [1..Cardinality(S) -> S] : \A j, k \in 1..Cardinality(S) : o[j] = o[k] => j = k }

CompleteSequences == UNION { SequencesInOrder(grid, o) : o \in Orders(Unplaced) }

\* ------------------------------------------------------------------ claims
Returned == suggested_sequence.moves

\* The slot indices of a sequence of moves, in order.
OrderOf(s) == [k \in 1..Len(s) |-> s[k][1]]

\* a comes strictly before b in lexicographic order (a, b of equal length).
LexLess(a, b) ==
  \E k \in 1..Len(a) : a[k] < b[k] /\ \A j \in 1..(k - 1) : a[j] = b[j]

\* The anchors of a sequence of moves, flattened: row, col, row, col, ...
AnchorsOf(s) == [k \in 1..(2 * Len(s)) |-> s[(k + 1) \div 2][IF k % 2 = 1 THEN 2 ELSE 3]]

\* C1: a returned sequence scores at least as much as every complete sequence
\* of legal moves, over every ordering of the unplaced slots and every anchor.
C1_Optimal ==
  (Answered /\ ~suggested_sequence.none) =>
    \A s \in CompleteSequences : SequenceScore(grid, Returned) >= SequenceScore(grid, s)

\* The solver answered for three unplaced pieces, and some complete sequence
\* scores strictly less than the returned one.
C1_Witness ==
  /\ Answered /\ ~suggested_sequence.none /\ Cardinality(Unplaced) = 3
  /\ \E s \in CompleteSequences : SequenceScore(grid, s) < SequenceScore(grid, Returned)

RECURSIVE LegalReplay(_, _)
LegalReplay(g, s) ==
  IF s = <<>> THEN TRUE
  ELSE LET m == Head(s)
           shape == available_pieces[m[1]].shape
       IN  /\ Legal(g, shape, <<m[2], m[3]>>)
           /\ LegalReplay(Applied(g, shape, <<m[2], m[3]>>).grid, Tail(s))

\* C2: replayed from the input grid, every move of a returned sequence lands
\* in bounds on empty cells of the grid the earlier moves produced.
C2_LegalInOrder ==
  (Answered /\ ~suggested_sequence.none) => LegalReplay(grid, Returned)

\* A returned sequence with a move that would not have been legal on the
\* input grid: an earlier move cleared the room for it.
C2_Witness ==
  /\ Answered /\ ~suggested_sequence.none
  /\ \E k \in 2..Len(Returned) :
       ~Legal(grid, available_pieces[Returned[k][1]].shape, <<Returned[k][2], Returned[k][3]>>)

\* C3: a returned sequence has exactly one move per unplaced slot and no move
\* for a placed slot.
C3_NeverPartial ==
  (Answered /\ ~suggested_sequence.none) =>
    /\ Len(Returned) = Cardinality(Unplaced)
    /\ { Returned[k][1] : k \in 1..Len(Returned) } = Unplaced

\* A sequence was returned although some branch of the search found no
\* placement for a piece below depth 0.
C3_Witness ==
  /\ Answered /\ ~suggested_sequence.none /\ dead_end
  /\ Len(Returned) = 3

\* C4: the answer is None exactly when some slot is unplaced and no ordering
\* of the unplaced slots admits a complete sequence of legal moves.
C4_NoneIffNoSequence ==
  Answered =>
    (suggested_sequence = None <=> (Unplaced # {} /\ CompleteSequences = {}))

\* None is answered although a piece still fits on the board.
C4_Witness ==
  /\ Answered /\ suggested_sequence = None
  /\ pc = "input"

PermScore(order) == find_best_outcome_recursive(<<grid>>, 1, available_pieces, order, 0).score

Swapped(order, i, j) ==
  [k \in 1..Len(order) |-> IF order[k] = i THEN j ELSE IF order[k] = j THEN i ELSE order[k]]

TwinSlots ==
  { ij \in Unplaced \X Unplaced :
      ij[1] < ij[2] /\ available_pieces[ij[1]].shape = available_pieces[ij[2]].shape }

\* C5: with identical shapes in two unplaced slots, exchanging the two slots in
\* a permutation leaves its best score unchanged, and a returned sequence
\* follows the lexicographically earliest permutation of maximal score.
C5_TwinsTieBreak ==
  (Answered /\ TwinSlots # {}) =>
    /\ \A ij \in TwinSlots : \A o \in Orders(Unplaced) :
         PermScore(o) = PermScore(Swapped(o, ij[1], ij[2]))
    /\ ~suggested_sequence.none =>
         /\ OrderOf(Returned) \in Orders(Unplaced)
         /\ \A o \in Orders(Unplaced) :
              \/ PermScore(o) < PermScore(OrderOf(Returned))
              \/ o = OrderOf(Returned)
              \/ (PermScore(o) = PermScore(OrderOf(Returned)) /\ LexLess(OrderOf(Returned), o))

\* Two unplaced slots hold the same shape, three pieces are unplaced, and
\* another permutation ties with the one the returned sequence follows.
C5_Witness ==
  /\ Answered /\ TwinSlots # {} /\ ~suggested_sequence.none
  /\ Cardinality(Unplaced) = 3
  /\ \E o \in Orders(Unplaced) :
       o # OrderOf(Returned) /\ PermScore(o) = PermScore(OrderOf(Returned))

\* Row r of g lacks exactly the cell (r, c).
RowShort(g, r, c) ==
  /\ g[r][c] = EMPTY_CELL
  /\ \A d \in 0..(GridSize - 1) : d # c => g[r][d] = BLOCK_CELL

ClearingAnchors(g, shape) == { a \in LegalAnchors(g, shape) : Applied(g, shape, a).lines > 0 }

\* Slot i is unplaced, anchor a puts its piece on the one missing cell of a
\* row, and no other placement of that piece on the board clears a line.
FillsTheGap(i, a) ==
  /\ i \in Unplaced
  /\ Legal(grid, available_pieces[i].shape, a)
  /\ \E r \in 0..(GridSize - 1), c \in 0..(GridSize - 1) :
       /\ RowShort(grid, r, c)
       /\ <<r - a[1], c - a[2]>> \in available_pieces[i].shape
  /\ ClearingAnchors(grid, available_pieces[i].shape) = {a}

\* C6 as stated: whatever the other slots hold, the returned sequence places
\* the piece on the gap.
C6_AsStated ==
  Answered =>
    \A i \in Slots, a \in Cells :
      FillsTheGap(i, a) =>
        (~suggested_sequence.none /\ \E k \in 1..Len(Returned) : Returned[k] = <<i, a[1], a[2]>>)

\* C6 (amended): when the piece that fills the gap is the only unplaced piece,
\* the returned sequence is that one placement.
C6_OnlyPieceLeft ==
  Answered =>
    \A i \in Slots, a \in Cells :
      (FillsTheGap(i, a) /\ Unplaced = {i}) =>
        suggested_sequence = Some(<< <<i, a[1], a[2]>> >>)

\* The last unplaced piece fills the gap of a row, and it has other legal
\* placements, none of which clears a line.
C6_Witness ==
  /\ Answered
  /\ \E i \in Slots, a \in Cells :
       /\ FillsTheGap(i, a) /\ Unplaced = {i}
       /\ \E b \in LegalAnchors(grid, available_pieces[i].shape) : b # a

RotatedShapes == { NewPiece(b, n).shape : b \in 1..Len(BASE_SHAPES), n \in 0..3 }

RowMajorBefore(a, b) == a[1] * GRID_WIDTH + a[2] < b[1] * GRID_WIDTH + b[2]

OnlySlot(shape) ==
  [i \in Slots |-> [shape |-> shape, placed |-> i # 0]]

\* C7: for the board of every state and every rotation of every base shape,
\* the enumerator returns exactly the anchors of the whole grid that
\* is_valid_placement accepts, in strictly increasing row-major order; it is
\* non-empty exactly when can_any_piece_be_placed finds a position; on the
\* empty grid the 1x2 shape has H x (W - 1) anchors; the empty shape has none.
C7_Enumerator ==
  /\ \A shape \in RotatedShapes :
       LET found == find_all_possible_placements(grid, shape)
       IN  /\ { found[k] : k \in 1..Len(found) } =
                { a \in (0..(GRID_HEIGHT - 1)) \X (0..(GRID_WIDTH - 1)) :
                    is_valid_placement(grid, shape, a[1], a[2]) }
           /\ \A k \in 1..(Len(found) - 1) : RowMajorBefore(found[k], found[k + 1])
           /\ (Len(found) > 0) <=> can_any_piece_be_placed(grid, OnlySlot(shape))
  /\ Len(find_all_possible_placements(create_grid, BASE_SHAPES[1])) = GRID_HEIGHT * (GRID_WIDTH - 1)
  /\ find_all_possible_placements(grid, {}) = <<>>

\* On a board that is not empty, a shape has some anchors accepted and, inside
\* the range its bounding box allows, some refused.
C7_Witness ==
  /\ Filled(grid) # {}
  /\ \E shape \in RotatedShapes :
       LET found == find_all_possible_placements(grid, shape)
           height == SetMax({ p[1] : p \in shape }) + 1
           width == SetMax({ p[2] : p \in shape }) + 1
       IN  /\ Len(found) > 1
           /\ \E a \in Cells :
                /\ a[1] + height <= GRID_HEIGHT /\ a[2] + width <= GRID_WIDTH
                /\ ~is_valid_placement(grid, shape, a[1], a[2])

\* C8: with every slot placed the solver returns the empty sequence, not None.
C8_AllPlacedEmptySequence ==
  (Answered /\ Unplaced = {}) => suggested_sequence = Some(<<>>)

\* The solver answered for a round with all three pieces placed, on a board
\* that is not empty.
C8_Witness ==
  /\ Answered /\ Unplaced = {} /\ Filled(grid) # {}

\* C9: a returned sequence is, among the sequences of maximal score that
\* follow its permutation, the first one: at the first depth where another
\* such sequence differs, the returned anchor comes first in row-major order.
C9_FirstAnchorWins ==
  (Answered /\ ~suggested_sequence.none) =>
    LET rivals == SequencesInOrder(grid, OrderOf(Returned))
        top == { s \in rivals : \A t \in rivals : SequenceScore(grid, s) >= SequenceScore(grid, t) }
    IN  /\ Returned \in top
        /\ \A s \in top : s = Returned \/ LexLess(AnchorsOf(Returned), AnchorsOf(s))

\* Another sequence of the same permutation ties with the returned one and
\* differs from it only after the first move.
C9_Witness ==
  /\ Answered /\ ~suggested_sequence.none /\ Len(Returned) >= 2
  /\ \E s \in SequencesInOrder(grid, OrderOf(Returned)) :
       /\ s # Returned /\ s[1] = Returned[1]
       /\ SequenceScore(grid, s) = SequenceScore(grid, Returned)

\* C10: a call of the solver leaves the caller's grid and the slots as they
\* were, and every copy taken inside the search held the grid as it was when
\* the enclosing call began.
C10_BranchIsolation ==
  [][pc = "suggest" =>
       /\ grid' = grid
       /\ available_pieces' = available_pieces
       /\ isolated']_vars

\* The solver answered after a search that placed pieces and cleared lines on
\* copies: the returned sequence clears a line, and the caller's board is not
\* empty.
C10_Witness ==
  /\ Answered /\ ~suggested_sequence.none /\ isolated
  /\ Filled(grid) # {}
  /\ Len(Returned) >= 2
  /\ Applied(grid, available_pieces[Returned[1][1]].shape, <<Returned[1][2], Returned[1][3]>>).lines > 0

====
